---- MODULE Spec2Model ----
(***************************************************************************)
(* State-machine model of SudokuSolver.py: class Sudoku (load_grid,        *)
(* __init__, solve, recursive_solve, check, find_empty_cell).              *)
(*                                                                         *)
(* Rows and columns are numbered 0..8 as in the source; a grid is a        *)
(* sequence of rows (a Python list of lists), so the cell the source       *)
(* writes grid[i][j] is Cell(g, i, j) == g[i + 1][j + 1].                  *)
(* A text file is a sequence of lines, a line a sequence of one-character  *)
(* strings.                                                                *)
(***************************************************************************)
EXTENDS Integers, Sequences, FiniteSets, TLC

\* ------------------------------------------------------------------------
\* Program constants and bounds
\* ------------------------------------------------------------------------

\* range(9): the number of rows and columns every loop of the solver covers
N == 9

\* the side of a region: (row // 3) * 3, range(region, region + 3)
Box == 3

\* number of cells of BlankCells that an input puzzle may leave empty
NumBlankable == 4

Idx == 0 .. (N - 1)

\* ------------------------------------------------------------------------
\* Input files
\* ------------------------------------------------------------------------

\* a completed puzzle from which the input puzzles are derived
Base ==
  << <<5,3,4,6,7,8,9,1,2>>,
     <<6,7,2,1,9,5,3,4,8>>,
     <<1,9,8,3,4,2,5,6,7>>,
     <<8,5,9,7,6,1,4,2,3>>,
     <<4,2,6,8,5,3,7,9,1>>,
     <<7,1,3,9,2,4,8,5,6>>,
     <<9,6,1,5,3,7,2,8,4>>,
     <<2,8,7,4,1,9,6,3,5>>,
     <<3,4,5,2,8,6,1,7,9>> >>

\* cells <<row, col>> a puzzle may leave empty, in the order the bound
\* NumBlankable admits them
BlankCells ==
  << <<2,4>>, <<2,5>>, <<5,4>>, <<5,5>>, <<7,8>>, <<6,3>>, <<6,8>>, <<7,3>> >>

BlankSets == SUBSET { BlankCells[k] : k \in 1 .. NumBlankable }

\* a given that is overwritten: <<row, col, digit>>; <<0,0,5>> changes nothing
Overrides == { <<0,0,5>>, <<2,4,2>>, <<3,5,2>> }

Puzzle(blanks, ov) ==
  [i \in 1 .. N |-> [j \in 1 .. N |->
      IF i = ov[1] + 1 /\ j = ov[2] + 1 THEN ov[3]
      ELSE IF <<i - 1, j - 1>> \in blanks THEN 0
      ELSE Base[i][j]]]

DigitChars == <<"0", "1", "2", "3", "4", "5", "6", "7", "8", "9">>

Whitespace == {" ", "\n"}

TextLine(row) == [j \in 1 .. Len(row) |-> DigitChars[row[j] + 1]] \o <<"\n">>

TextLines(g) == [i \in 1 .. Len(g) |-> TextLine(g[i])]

Shapes == {"plain", "blank", "short", "long", "empty", "len8", "letter", "space"}

BadRows == {0, 4}

\* the text of puzzle g laid out as one of the file shapes; k is the row a
\* malformed line stands in
FileOf(g, shape, k) ==
  LET t == TextLines(g) IN
  CASE shape = "plain"  -> t
    [] shape = "blank"  -> <<<<"\n">>>> \o SubSeq(t, 1, 3)
                           \o << <<" ", " ", "\n">> >>
                           \o << <<" ">> \o t[4] >> \o SubSeq(t, 5, N)
                           \o <<<<"\n">>>>
    [] shape = "short"  -> SubSeq(t, 1, N - 1)
    [] shape = "long"   -> t \o <<t[1]>>
    [] shape = "empty"  -> << >>
    [] shape = "len8"   -> [t EXCEPT ![k + 1] = SubSeq(t[k + 1], 1, 8) \o <<"\n">>]
    [] shape = "letter" -> [t EXCEPT ![k + 1][3] = "a"]
    [] shape = "space"  -> [t EXCEPT ![k + 1][3] = " "]

Files ==
  { FileOf(Puzzle(b, ov), s, k) : b \in BlankSets, ov \in Overrides,
                                  s \in Shapes, k \in BadRows }

\* ------------------------------------------------------------------------
\* load_grid
\* ------------------------------------------------------------------------

RECURSIVE lstrip(_)
lstrip(s) ==
  IF s # << >> /\ Head(s) \in Whitespace THEN lstrip(Tail(s)) ELSE s

RECURSIVE rstrip(_)
rstrip(s) ==
  IF s # << >> /\ s[Len(s)] \in Whitespace
  THEN rstrip(SubSeq(s, 1, Len(s) - 1)) ELSE s

\* str.strip()
strip(s) == rstrip(lstrip(s))

\* str.isdigit()
isdigit(s) ==
  s # << >> /\ \A k \in 1 .. Len(s) : \E d \in 1 .. 10 : DigitChars[d] = s[k]

\* int(x) for a one-character string
int(x) == (CHOOSE d \in 1 .. 10 : DigitChars[d] = x) - 1

\* data = [l for l in (line.strip() for line in f) if l]
RECURSIVE NonBlank(_)
NonBlank(f) ==
  IF f = << >> THEN << >>
  ELSE LET l == strip(Head(f)) IN
       IF l # << >> THEN <<l>> \o NonBlank(Tail(f)) ELSE NonBlank(Tail(f))

\* data.index(i), 0-based
index(data, l) == (CHOOSE k \in 1 .. Len(data) :
                     data[k] = l /\ \A m \in 1 .. (k - 1) : data[m] # l) - 1

\* the for loop of load_grid over data[k ..], grid being the rows appended
RECURSIVE LoadRows(_, _, _)
LoadRows(data, k, grid) ==
  IF k > Len(data) THEN [kind |-> "grid", grid |-> grid, row |-> -1]
  ELSE LET i == data[k] IN
       IF Len(i) # 9 \/ ~isdigit(i)
       THEN [kind |-> "ValueError", grid |-> << >>, row |-> index(data, i)]
       ELSE LoadRows(data, k + 1,
                     Append(grid, [x \in 1 .. Len(i) |-> int(i[x])]))

load_grid(f) == LoadRows(NonBlank(f), 1, << >>)

\* ------------------------------------------------------------------------
\* find_empty_cell, check
\* ------------------------------------------------------------------------

\* self.grid[i][j] can be read or written: Python raises IndexError otherwise
InRange(g, i, j) == i + 1 \in 1 .. Len(g) /\ j + 1 \in 1 .. Len(g[i + 1])

Cell(g, i, j) == g[i + 1][j + 1]

\* the inner loop of find_empty_cell over the columns of row i, from j on;
\* "next" when the row has no empty cell
RECURSIVE ScanCols(_, _, _)
ScanCols(g, i, j) ==
  IF j = N THEN [kind |-> "next", row |-> -1, col |-> -1]
  ELSE IF ~InRange(g, i, j)
  THEN [kind |-> "IndexError", row |-> -1, col |-> -1]
  ELSE IF Cell(g, i, j) = 0
  THEN [kind |-> "cell", row |-> i, col |-> j]
  ELSE ScanCols(g, i, j + 1)

\* the outer loop of find_empty_cell over the rows, from i on
RECURSIVE ScanRows(_, _)
ScanRows(g, i) ==
  IF i = N THEN [kind |-> "None", row |-> -1, col |-> -1]
  ELSE LET found == ScanCols(g, i, 0) IN
       IF found.kind = "next" THEN ScanRows(g, i + 1) ELSE found

find_empty_cell(g) == ScanRows(g, 0)

\* first loop of check, from i on; row and col are check's local names
RECURSIVE ScanLines(_, _, _, _, _)
ScanLines(g, digit, col, row, i) ==
  IF i = N THEN "pass"
  ELSE IF col # i /\ ~InRange(g, i, row) THEN "IndexError"
  ELSE IF col # i /\ Cell(g, i, row) = digit THEN "False"
  ELSE IF row # i /\ ~InRange(g, col, i) THEN "IndexError"
  ELSE IF row # i /\ Cell(g, col, i) = digit THEN "False"
  ELSE ScanLines(g, digit, col, row, i + 1)

\* second loop of check, over the region, from its cell number k on
RECURSIVE ScanRegion(_, _, _, _, _, _)
ScanRegion(g, digit, position, region_col, region_row, k) ==
  IF k = Box * Box THEN "True"
  ELSE LET i == region_col + (k \div Box)
           j == region_row + (k % Box)
       IN  IF ~InRange(g, i, j) THEN "IndexError"
           ELSE IF Cell(g, i, j) = digit /\ <<i, j>> # position THEN "False"
           ELSE ScanRegion(g, digit, position, region_col, region_row, k + 1)

\* check with `row, col = position`: the two coordinates taken in the other
\* order
checkTransposed(g, digit, position) ==
  LET col == position[2]
      row == position[1]
      region_row == (row \div Box) * Box
      region_col == (col \div Box) * Box
      lines == ScanLines(g, digit, col, row, 0)
  IN  IF lines # "pass" THEN lines
      ELSE ScanRegion(g, digit, position, region_col, region_row, 0)

\* check whose region starts at the cell instead of at the region's origin
checkNoFloor(g, digit, position) ==
  LET col == position[1]
      row == position[2]
      region_row == row
      region_col == col
      lines == ScanLines(g, digit, col, row, 0)
  IN  IF lines # "pass" THEN lines
      ELSE ScanRegion(g, digit, position, region_col, region_row, 0)

\* check(digit, position): "True", "False", or "IndexError" when it is left
\* by that exception
check(g, digit, position) ==
  LET col == position[1]
      row == position[2]
      region_row == (row \div Box) * Box
      region_col == (col \div Box) * Box
      lines == ScanLines(g, digit, col, row, 0)
  IN  IF lines # "pass" THEN lines
      ELSE ScanRegion(g, digit, position, region_col, region_row, 0)

\* range(9, 0, -1): the digits in descending order
DigitRangeDown == <<9, 8, 7, 6, 5, 4, 3, 2, 1>>

\* for i in range(1, 10, 1)
DigitRange == <<1, 2, 3, 4, 5, 6, 7, 8, 9>>

\* self.grid[col][row] = i: the indices exchanged
PlaceSwapped(g, row, col, i) == [g EXCEPT ![col + 1][row + 1] = i]

\* self.grid[row][col] = 0 where the digit should be placed
PlaceZero(g, row, col, i) == [g EXCEPT ![row + 1][col + 1] = 0]

\* self.grid[row][col] = i
Place(g, row, col, i) == [g EXCEPT ![row + 1][col + 1] = i]

\* the backtracking assignment left out
RetractNone(g, row, col) == g

\* self.grid[row][col] = 0
Retract(g, row, col) == [g EXCEPT ![row + 1][col + 1] = 0]

\* ------------------------------------------------------------------------
\* What the claims speak of: valid grids, contradictions, completions
\* ------------------------------------------------------------------------

Cells == Idx \X Idx

Is9x9(g) == Len(g) = N /\ \A i \in 1 .. N : Len(g[i]) = N

\* the nine rows, nine columns and nine regions, each a set of cells
Groups ==
  { { <<r, c>> : c \in Idx } : r \in Idx } \cup
  { { <<r, c>> : r \in Idx } : c \in Idx } \cup
  { { <<Box * a + x, Box * b + y>> : x \in 0 .. (Box - 1), y \in 0 .. (Box - 1) }
      : a \in 0 .. (Box - 1), b \in 0 .. (Box - 1) }

\* every row, column and region holds exactly the digits 1..9
ValidGrid(g) ==
  /\ Is9x9(g)
  /\ \A G \in Groups : { Cell(g, c[1], c[2]) : c \in G } = 1 .. N

\* two identical non-zero digits in one row, column or region
DirectContradiction(g) ==
  /\ Is9x9(g)
  /\ \E G \in Groups : \E c1 \in G, c2 \in G :
       /\ c1 # c2
       /\ Cell(g, c1[1], c1[2]) # 0
       /\ Cell(g, c1[1], c1[2]) = Cell(g, c2[1], c2[2])

EmptyCells(g) ==
  { c \in Cells : InRange(g, c[1], c[2]) /\ Cell(g, c[1], c[2]) = 0 }

EmptyCount(g) == Cardinality(EmptyCells(g))

Fill(g, f) ==
  [i \in 1 .. N |-> [j \in 1 .. N |->
      IF <<i - 1, j - 1>> \in DOMAIN f THEN f[<<i - 1, j - 1>>] ELSE g[i][j]]]

\* the valid completions of g: digits 1..9 in its empty cells, givens kept
Completions(g) ==
  IF ~Is9x9(g) THEN {}
  ELSE { h \in { Fill(g, f) : f \in [EmptyCells(g) -> 1 .. N] } : ValidGrid(h) }

\* h keeps every non-zero cell of g
Extends(h, g) ==
  \A c \in Cells : Cell(g, c[1], c[2]) # 0 => Cell(h, c[1], c[2]) = Cell(g, c[1], c[2])

\* the cells that share the row, the column or the region of (r, c)
Peers(r, c) ==
  { p \in Cells : /\ p # <<r, c>>
                  /\ \/ p[1] = r
                     \/ p[2] = c
                     \/ /\ p[1] \div Box = r \div Box
                        /\ p[2] \div Box = c \div Box }

\* no other cell of the row, column or region of (r, c) holds d
NoConflict(g, d, r, c) ==
  \A p \in Peers(r, c) : InRange(g, p[1], p[2]) => Cell(g, p[1], p[2]) # d

\* g comes before h, or is h, reading the cells in row-major order
LexLeq(g, h) ==
  \/ g = h
  \/ \E k \in 0 .. (N * N - 1) :
       /\ Cell(g, k \div N, k % N) < Cell(h, k \div N, k % N)
       /\ \A m \in 0 .. (k - 1) : Cell(g, m \div N, m % N) = Cell(h, m \div N, m % N)

\* ------------------------------------------------------------------------
\* State
\* ------------------------------------------------------------------------

VARIABLES
  file,     \* the text of the file at `path`
  pc,       \* "new", "ready", "solving", "done", "ValueError", "IndexError"
  grid,     \* self.grid
  input,    \* the grid as load_grid returned it (history)
  solutions,\* the valid completions of input (history)
  stack,    \* the frames of recursive_solve in flight, innermost last
  ret,      \* value returned by the call that has just returned, or "none"
  retEntry, \* the grid at the entry of that call (history)
  outcome   \* what solve printed: "none", "solved", "unsolvable"

vars == <<file, pc, grid, input, solutions, stack, ret, retEntry, outcome>>

Init ==
  /\ file \in Files
  /\ pc = "new"
  /\ grid = << >>
  /\ input = << >>
  /\ solutions = {}
  /\ stack = << >>
  /\ ret = "none"
  /\ retEntry = << >>
  /\ outcome = "none"

\* Sudoku.__init__: self.grid = self.load_grid(path); a ValueError leaves
\* no object behind
Construct ==
  /\ pc = "new"
  /\ LET r == load_grid(file) IN
       IF r.kind = "ValueError"
       THEN /\ pc' = "ValueError"
            /\ UNCHANGED <<grid, input, solutions>>
       ELSE /\ pc' = "ready"
            /\ grid' = r.grid
            /\ input' = r.grid
            /\ solutions' = Completions(r.grid)
  /\ UNCHANGED <<file, stack, ret, retEntry, outcome>>

\* a frame of recursive_solve at its first line; entry is the grid it was
\* called on (history)
NewFrame(g) == [at |-> "start", row |-> -1, col |-> -1, k |-> 1, entry |-> g]

Top == stack[Len(stack)]

Pop == SubSeq(stack, 1, Len(stack) - 1)

\* solve: self.start = perf_counter(); self.recursive_solve()
Solve ==
  /\ pc = "ready"
  /\ pc' = "solving"
  /\ stack' = <<NewFrame(grid)>>
  /\ UNCHANGED <<file, grid, input, solutions, ret, retEntry, outcome>>

\* recursive_solve, lines 33-38: result = self.find_empty_cell(); no empty
\* cell returns True
FindEmpty ==
  /\ pc = "solving"
  /\ ret = "none"
  /\ stack # << >>
  /\ Top.at = "start"
  /\ LET result == find_empty_cell(grid) IN
       CASE result.kind = "IndexError" ->
              /\ pc' = "IndexError"
              /\ UNCHANGED <<stack, ret, retEntry>>
         [] result.kind = "None" ->
              /\ stack' = Pop
              /\ ret' = "True"
              /\ retEntry' = Top.entry
              /\ pc' = pc
         [] result.kind = "cell" ->
              /\ stack' = [stack EXCEPT ![Len(stack)] =
                             [@ EXCEPT !.at = "loop", !.row = result.row,
                                       !.col = result.col, !.k = 1]]
              /\ UNCHANGED <<pc, ret, retEntry>>
  /\ UNCHANGED <<file, grid, input, solutions, outcome>>

\* recursive_solve, lines 40-44: one iteration of the loop up to the
\* recursive call
TryDigit ==
  /\ pc = "solving"
  /\ ret = "none"
  /\ stack # << >>
  /\ Top.at = "loop"
  /\ Top.k <= Len(DigitRange)
  /\ LET i == DigitRange[Top.k]
         c == check(grid, i, <<Top.row, Top.col>>)
     IN  CASE c = "IndexError" ->
                /\ pc' = "IndexError"
                /\ UNCHANGED <<grid, stack>>
           [] c = "False" ->
                /\ stack' = [stack EXCEPT ![Len(stack)].k = @ + 1]
                /\ UNCHANGED <<pc, grid>>
           [] c = "True" ->
                /\ grid' = Place(grid, Top.row, Top.col, i)
                /\ stack' = Append([stack EXCEPT ![Len(stack)].at = "wait"],
                                   NewFrame(grid'))
                /\ pc' = pc
  /\ UNCHANGED <<file, input, solutions, ret, retEntry, outcome>>

\* recursive_solve, line 48: the loop is over, return False
Exhausted ==
  /\ pc = "solving"
  /\ ret = "none"
  /\ stack # << >>
  /\ Top.at = "loop"
  /\ Top.k > Len(DigitRange)
  /\ stack' = Pop
  /\ ret' = "False"
  /\ retEntry' = Top.entry
  /\ UNCHANGED <<file, pc, grid, input, solutions, outcome>>

\* recursive_solve, lines 44-47: the recursive call has returned; True is
\* passed on, False retracts the placement and goes to the next digit
Resume ==
  /\ pc = "solving"
  /\ ret # "none"
  /\ stack # << >>
  /\ Top.at = "wait"
  /\ IF ret = "True"
     THEN /\ stack' = Pop
          /\ retEntry' = Top.entry
          /\ UNCHANGED <<grid, ret>>
     ELSE /\ grid' = Retract(grid, Top.row, Top.col)
          /\ stack' = [stack EXCEPT ![Len(stack)] =
                         [@ EXCEPT !.at = "loop", !.k = @ + 1]]
          /\ ret' = "none"
          /\ UNCHANGED retEntry
  /\ UNCHANGED <<file, pc, input, solutions, outcome>>

\* solve, lines 23-27: the outermost call has returned
Finish ==
  /\ pc = "solving"
  /\ ret # "none"
  /\ stack = << >>
  /\ pc' = "done"
  /\ outcome' = IF ret = "True" THEN "solved" ELSE "unsolvable"
  /\ UNCHANGED <<file, grid, input, solutions, stack, ret, retEntry>>

\* a step of solve() and of the recursive_solve calls below it
SolveStep ==
  \/ Solve
  \/ FindEmpty
  \/ TryDigit
  \/ Exhausted
  \/ Resume
  \/ Finish

Next ==
  \/ Construct
  \/ SolveStep

Spec == Init /\ [][Next]_vars

\* solve() is one synchronous call of a single thread: once the object
\* exists, the steps of solve go on while one is possible
FairSpec == Spec /\ WF_vars(SolveStep)

\* ------------------------------------------------------------------------
\* Claims
\* ------------------------------------------------------------------------

\* recursive_solve is about to call check for the next digit of its loop
LoopState ==
  /\ pc = "solving"
  /\ ret = "none"
  /\ stack # << >>
  /\ Top.at = "loop"
  /\ Top.k <= Len(DigitRange)

Digit == DigitRange[Top.k]

Checked == check(grid, Digit, <<Top.row, Top.col>>)

\* C1: whenever solve reports success, every row, column and region of the
\* grid holds exactly the digits 1..9.
Validity ==
  (pc = "done" /\ outcome = "solved") => ValidGrid(grid)

\* C2: an input grid with a valid completion is reported solved, and neither
\* a digit check rejects nor a call that returns False had a valid completion
\* in its branch.
Completeness ==
  /\ (solutions # {} /\ pc \in {"done", "IndexError"})
       => (pc = "done" /\ outcome = "solved")
  /\ (LoopState /\ Checked # "True")
       => \A h \in solutions :
            ~Extends(h, Place(grid, Top.row, Top.col, Digit))
  /\ (pc = "solving" /\ ret = "False")
       => \A h \in solutions : ~Extends(h, retEntry)

\* a call has returned False to its caller although the puzzle is solvable
CompletenessWitness ==
  /\ pc = "solving"
  /\ ret = "False"
  /\ stack # << >>
  /\ solutions # {}

\* C3: an input whose givens hold a direct contradiction is reported
\* unsolvable.
UnsolvabilityDetection ==
  (pc = "done" /\ DirectContradiction(input)) => outcome = "unsolvable"

\* C4: in every state of a solve each cell that is non-zero in the input
\* holds its input value, and the grid keeps its shape.
Fidelity ==
  pc \in {"ready", "solving", "done", "IndexError"} =>
    /\ Len(grid) = Len(input)
    /\ \A i \in 1 .. Len(input) :
         /\ Len(grid[i]) = Len(input[i])
         /\ \A j \in 1 .. Len(input[i]) :
              input[i][j] # 0 => grid[i][j] = input[i][j]

\* a solve that filled several empty cells has ended
FidelityWitness ==
  /\ pc = "done"
  /\ outcome = "solved"
  /\ EmptyCount(input) >= 3
  /\ EmptyCount(grid) = 0

\* C5: a call of recursive_solve that returns False leaves the grid as it
\* was at the call's entry, and a solve that reports unsolvable leaves the
\* grid equal to the input.
UndoOnFailure ==
  /\ (pc = "solving" /\ ret = "False") => grid = retEntry
  /\ (pc = "done" /\ outcome = "unsolvable") => grid = input

\* a nested call, entered after placements were made, has returned False
UndoOnFailureWitness ==
  /\ pc = "solving"
  /\ ret = "False"
  /\ Len(stack) >= 2
  /\ retEntry # input

\* after blank lines are skipped: exactly 9 lines of exactly 9 digits each
WellFormed(f) ==
  LET data == NonBlank(f) IN
    /\ Len(data) = N
    /\ \A k \in 1 .. Len(data) : Len(data[k]) = N /\ isdigit(data[k])

\* C6: load_grid fails with ValueError, and no grid is produced, exactly
\* when the file is not 9 lines of 9 digits each.
LoadRejection ==
  pc # "new" =>
    /\ pc = "ValueError" <=> ~WellFormed(file)
    /\ pc = "ValueError" => grid = << >>

\* the nested calls hold fewer and fewer empty cells, so that the depth is
\* at most the number of empty cells of the input plus one
DepthBound ==
  /\ Len(stack) <= EmptyCount(input) + 1
  /\ \A k \in 1 .. (Len(stack) - 1) :
       EmptyCount(stack[k + 1].entry) < EmptyCount(stack[k].entry)

\* C7: the recursion depth never exceeds the number of initially empty cells
\* plus one, each nested call starts with fewer empty cells than its caller,
\* and the solve of a 9x9 grid eventually ends.
Termination ==
  /\ []DepthBound
  /\ (pc = "solving" /\ Is9x9(input)) ~> (pc = "done")

\* the innermost possible call is in flight: one frame per empty cell of the
\* input and the call that finds none
TerminationWitness ==
  /\ pc = "solving"
  /\ EmptyCount(input) >= 3
  /\ Len(stack) = EmptyCount(input) + 1

\* C8: a solve never reads or writes a cell outside the grid, so it never
\* ends by an IndexError.
NoBoundsFault == pc # "IndexError"

\* C9 (first part): check returns True exactly when no other cell of the
\* row, the column or the region holds the digit, and on a 9x9 grid it always
\* returns.
CheckAgrees ==
  LoopState =>
    /\ Checked = "True" => NoConflict(grid, Digit, Top.row, Top.col)
    /\ Checked = "False" => ~NoConflict(grid, Digit, Top.row, Top.col)
    /\ Is9x9(grid) => Checked # "IndexError"

\* C9 (second part): a check that does not return True leaves the grid alone
CheckKeepsGrid ==
  (LoopState /\ Checked # "True") => grid' = grid

LeastSolution ==
  (pc = "done" /\ outcome = "solved" /\ Is9x9(input)
     /\ ~DirectContradiction(input)) =>
    /\ grid \in solutions
    /\ \A h \in solutions : LexLeq(grid, h)

\* a puzzle with several solutions has been solved
LeastSolutionWitness ==
  /\ pc = "done"
  /\ outcome = "solved"
  /\ ~DirectContradiction(input)
  /\ Cardinality(solutions) >= 2
====
